---- MODULE Spec2Model ----
(***************************************************************************)
(* Model of dcapy/dca/wor.py: the bsw <-> WOR transforms, the recurrence   *)
(* engine wor_forecast, and the ensemble driver Wor.forecast.              *)
(*                                                                         *)
(* Numbers.  numpy float64 values are modelled as exact rationals <<n, d>> *)
(* in lowest terms with d > 0; <<1, 0>> stands for +inf and <<0, 0>> for   *)
(* nan (what numpy yields for x/0 and 0/0).  IEEE rounding is not          *)
(* modelled.  np.exp, which is transcendental, is modelled by the rational *)
(* function Exp below, which agrees with it in sign, in its value at 0 and *)
(* in being strictly increasing.                                           *)
(*                                                                         *)
(* Optional arguments.  A Python None is the empty tuple << >> and a       *)
(* present value v is <<v>>.                                               *)
(***************************************************************************)
EXTENDS Integers, Sequences, FiniteSets, TLC

VARIABLES
    pc,         \* position of the running call
    args,       \* arguments of the wor_forecast call in progress
    st,         \* wor_forecast locals: the column arrays and delta_time
    i,          \* wor_forecast loop variable: None while unbound, else <<k>>
    nxt,        \* next value the range() iterator of wor_forecast will yield
    ret,        \* what the call returned (a frame) or raised (an error name)
    self,       \* the Wor object's fields
    call,       \* arguments of the Wor.forecast call
    loc,        \* Wor.forecast locals: time_array, br, _bsw, _slope, _fluid, k
    list_forecast, \* Wor.forecast: the per-iteration frames appended so far
    started,    \* number of wor_forecast calls Wor.forecast has begun
    tr          \* transform check: input, intermediate and round-trip values

vars == <<pc, args, st, i, nxt, ret, self, call, loc, list_forecast, started, tr>>

----------------------------------------------------------------------------
(* Bounds of the model *)

MaxT == 4
MaxN == 3
PeriodDays == 2
MaxDen == 6

----------------------------------------------------------------------------
(* Rational arithmetic standing for float64 arithmetic *)

None == << >>
Some(v) == <<v>>

Abs(n) == IF n < 0 THEN -n ELSE n

RECURSIVE GCD(_, _)
GCD(a, b) == IF b = 0 THEN a ELSE GCD(b, a % b)

Norm(n, d) ==
    IF d = 0 THEN (IF n > 0 THEN <<1, 0>> ELSE IF n < 0 THEN <<-1, 0>> ELSE <<0, 0>>)
    ELSE LET s == IF d < 0 THEN -1 ELSE 1
             g == GCD(Abs(n), Abs(d))
         IN <<(s * n) \div g, (s * d) \div g>>

Q(n) == <<n, 1>>
Zero == Q(0)
One == Q(1)
Inf == <<1, 0>>
NaN == <<0, 0>>
IsFinite(a) == a[2] # 0

\* sums, products and comparisons cancel common factors first, which keeps the
\* integers small; the value is that of the plain cross-multiplied formula
RAdd(a, b) ==
    IF a[2] = 0 \/ b[2] = 0 THEN Norm(a[1] * b[2] + b[1] * a[2], 0)
    ELSE LET g == GCD(a[2], b[2])
         IN Norm(a[1] * (b[2] \div g) + b[1] * (a[2] \div g), (a[2] \div g) * b[2])
RNeg(a) == <<-a[1], a[2]>>
RSub(a, b) == RAdd(a, RNeg(b))
RMul(a, b) ==
    IF a[2] = 0 \/ b[2] = 0 \/ a[1] = 0 \/ b[1] = 0 THEN Norm(a[1] * b[1], a[2] * b[2])
    ELSE LET g1 == GCD(Abs(a[1]), b[2])
             g2 == GCD(Abs(b[1]), a[2])
         IN Norm((a[1] \div g1) * (b[1] \div g2), (a[2] \div g2) * (b[2] \div g1))
RDiv(a, b) ==
    IF b[2] = 0 \/ b[1] = 0 THEN Norm(a[1] * b[2], a[2] * b[1])
    ELSE RMul(a, IF b[1] < 0 THEN <<-b[2], -b[1]>> ELSE <<b[2], b[1]>>)
\* comparisons with nan are False, as in IEEE
RLe(a, b) == a # NaN /\ b # NaN /\
             (IF IsFinite(a) /\ IsFinite(b) THEN RSub(a, b)[1] <= 0
              ELSE a = b \/ a = <<-1, 0>> \/ b = Inf)
RGe(a, b) == RLe(b, a)
RLt(a, b) == RLe(a, b) /\ a # b

\* np.exp(x): 1 + x for x >= 0 and 1/(1 - x) for x < 0
Exp(x) == IF x[1] >= 0 THEN RAdd(One, x) ELSE RDiv(One, RSub(One, x))

\* Python truth value of an optional number: None and 0 are false
Truthy(o) == o # None /\ o[1][1] # 0

----------------------------------------------------------------------------
(* Transforms *)

\* bsw_to_wor with the denominator 1 + bsw in place of 1 - bsw
bsw_to_wor_plus(bsw) ==
    IF ~(RGe(bsw, Zero) /\ RLe(bsw, One)) THEN [err |-> "AssertionError", v |-> NaN]
    ELSE [err |-> "", v |-> RDiv(bsw, RAdd(One, bsw))]

\* bsw_to_wor on one element; "AssertionError" when the domain assert fails
bsw_to_wor(bsw) ==
    IF ~(RGe(bsw, Zero) /\ RLe(bsw, One)) THEN [err |-> "AssertionError", v |-> NaN]
    ELSE [err |-> "", v |-> RDiv(bsw, RSub(One, bsw))]

\* wor_to_bsw on one element
wor_to_bsw(wor) ==
    IF ~RGe(wor, Zero) THEN [err |-> "AssertionError", v |-> NaN]
    ELSE [err |-> "", v |-> IF wor = Inf THEN NaN ELSE RDiv(wor, RAdd(wor, One))]

----------------------------------------------------------------------------
(* wor_forecast *)

Zeros(n) == [j \in 1..n |-> Zero]

\* the array f with f[j] assigned v
Put(f, j, v) == [m \in 1..Len(f) |-> IF m = j THEN v ELSE f[m]]

\* np.gradient of a sequence of at least two values, unit spacing
Gradient(f) ==
    LET n == Len(f)
    IN [j \in 1..n |->
          IF j = 1 THEN RSub(f[2], f[1])
          ELSE IF j = n THEN RSub(f[n], f[n - 1])
          ELSE RDiv(RSub(f[j + 1], f[j - 1]), Q(2))]

\* lines 38-63: the arrays after the step-0 assignments
Step0(a, dt) ==
    LET T == Len(a.time_array)
        b0 == wor_to_bsw(a.wor_i).v
        or0 == RMul(a.fluid_rate[1], RSub(One, b0))
        wr0 == RMul(a.fluid_rate[1], b0)
    IN [delta_time |-> dt,
        wor        |-> Put(Zeros(T), 1, a.wor_i),
        wor_1      |-> Put(Zeros(T), 1, RAdd(a.wor_i, One)),
        bsw        |-> Put(Zeros(T), 1, b0),
        oil_rate   |-> Put(Zeros(T), 1, or0),
        water_rate |-> Put(Zeros(T), 1, wr0),
        oil_cum    |-> Put(Zeros(T), 1, RMul(or0, dt[1])),
        water_cum  |-> Put(Zeros(T), 1, RMul(wr0, dt[1])),
        fluid_cum  |-> Put(Zeros(T), 1, RMul(a.fluid_rate[1], dt[1]))]

\* the loop body with the cumulative volumes restarted at every step instead
\* of carried over from the previous row
BodyNoCarry(a, s, k) ==
    LET w  == RMul(Exp(RMul(a.slope, s.oil_cum[k])), a.wor_i)
        b  == wor_to_bsw(w).v
        orr == RMul(a.fluid_rate[k + 1], RSub(One, b))
        wr == RMul(a.fluid_rate[k + 1], b)
        oc == RMul(orr, s.delta_time[k + 1])
        wc == RMul(wr, s.delta_time[k + 1])
    IN [delta_time |-> s.delta_time,
        wor        |-> Put(s.wor, k + 1, w),
        wor_1      |-> Put(s.wor_1, k + 1, RAdd(w, One)),
        bsw        |-> Put(s.bsw, k + 1, b),
        oil_rate   |-> Put(s.oil_rate, k + 1, orr),
        water_rate |-> Put(s.water_rate, k + 1, wr),
        oil_cum    |-> Put(s.oil_cum, k + 1, oc),
        water_cum  |-> Put(s.water_cum, k + 1, wc),
        fluid_cum  |-> Put(s.fluid_cum, k + 1, RAdd(wc, oc))]

\* lines 66-73: the loop body at Python index k (array position k + 1)
Body(a, s, k) ==
    LET w  == RMul(Exp(RMul(a.slope, s.oil_cum[k])), a.wor_i)
        b  == wor_to_bsw(w).v
        orr == RMul(a.fluid_rate[k + 1], RSub(One, b))
        wr == RMul(a.fluid_rate[k + 1], b)
        oc == RAdd(s.oil_cum[k], RMul(orr, s.delta_time[k + 1]))
        wc == RAdd(s.water_cum[k], RMul(wr, s.delta_time[k + 1]))
    IN [delta_time |-> s.delta_time,
        wor        |-> Put(s.wor, k + 1, w),
        wor_1      |-> Put(s.wor_1, k + 1, RAdd(w, One)),
        bsw        |-> Put(s.bsw, k + 1, b),
        oil_rate   |-> Put(s.oil_rate, k + 1, orr),
        water_rate |-> Put(s.water_rate, k + 1, wr),
        oil_cum    |-> Put(s.oil_cum, k + 1, oc),
        water_cum  |-> Put(s.water_cum, k + 1, wc),
        fluid_cum  |-> Put(s.fluid_cum, k + 1, RAdd(wc, oc))]

\* lines 74-84: does the loop break after computing index k
Breaks(a, s, k) ==
    \/ Truthy(a.rate_limit) /\ RLe(s.oil_rate[k + 1], a.rate_limit[1])
    \/ Truthy(a.cum_limit) /\ RGe(s.oil_cum[k + 1], a.cum_limit[1])
    \/ Truthy(a.wor_limit) /\ RGe(s.wor[k + 1], a.wor_limit[1])

\* lines 86-104: the DataFrame sliced to rows 0..k (the index is column date)
Frame(a, s, k) ==
    [date       |-> SubSeq(a.time_array, 1, k + 1),
     oil_rate   |-> SubSeq(s.oil_rate, 1, k + 1),
     water_rate |-> SubSeq(s.water_rate, 1, k + 1),
     oil_cum    |-> SubSeq(s.oil_cum, 1, k + 1),
     water_cum  |-> SubSeq(s.water_cum, 1, k + 1),
     bsw        |-> SubSeq(s.bsw, 1, k + 1),
     wor        |-> SubSeq(s.wor, 1, k + 1),
     wor_1      |-> SubSeq(s.wor_1, 1, k + 1),
     delta_time |-> SubSeq(s.delta_time, 1, k + 1),
     fluid_rate |-> SubSeq(a.fluid_rate, 1, k + 1),
     fluid_cum  |-> SubSeq(s.fluid_cum, 1, k + 1)]

EmptyFrame ==
    [date |-> << >>, oil_rate |-> << >>, water_rate |-> << >>, oil_cum |-> << >>,
     water_cum |-> << >>, bsw |-> << >>, wor |-> << >>, wor_1 |-> << >>,
     delta_time |-> << >>, fluid_rate |-> << >>, fluid_cum |-> << >>]

BlankSt ==
    [delta_time |-> << >>, wor |-> << >>, wor_1 |-> << >>, bsw |-> << >>,
     oil_rate |-> << >>, water_rate |-> << >>, oil_cum |-> << >>,
     water_cum |-> << >>, fluid_cum |-> << >>]

RatSeq(t) == [j \in 1..Len(t) |-> Q(t[j])]

\* what a call has returned or raised: the exception and the step that raised
\* it, the frame wor_forecast returned, the frames Wor.forecast returned
NoResult == [err |-> "", what |-> "", frame |-> EmptyFrame, frames |-> << >>]
Raise(e, w) == [err |-> e, what |-> w, frame |-> EmptyFrame, frames |-> << >>]

\* lines 86-104: build the DataFrame and slice it with the loop variable
Build(a, s, last) ==
    IF Len(a.fluid_rate) # Len(a.time_array) THEN Raise("ValueError", "wor_forecast")
    ELSE IF last = None THEN Raise("UnboundLocalError", "wor_forecast")
    ELSE [err |-> "", what |-> "", frame |-> Frame(a, s, last[1]), frames |-> << >>]

----------------------------------------------------------------------------
(* wor_forecast called directly, one statement group per action *)

RECURSIVE TimeAxes(_)
\* time axes of length n starting at 0 with steps 0, 1 or 2
TimeAxes(n) ==
    IF n = 1 THEN {<<0>>}
    ELSE {Append(t, t[n - 1] + d) : t \in TimeAxes(n - 1), d \in {0, 1, 2}}

RECURSIVE FluidVecs(_)
FluidVecs(n) ==
    IF n = 0 THEN {<< >>}
    ELSE {Append(f, v) : f \in FluidVecs(n - 1), v \in {Zero, Q(2)}}

EngineArgs ==
    UNION {[time_array : TimeAxes(T),
            fluid_rate : FluidVecs(T) \cup {<<Q(2)>>},
            slope      : {Q(-1), Zero, Q(1)},
            wor_i      : {Zero, Q(1)},
            rate_limit : {None, Some(Zero), Some(Q(1))},
            cum_limit  : {None, Some(Q(3))},
            wor_limit  : {None, Some(Q(2))}] : T \in 1..MaxT}

EngineInit ==
    /\ pc = "entry"
    /\ args \in EngineArgs
    /\ st = BlankSt
    /\ i = None
    /\ nxt = 1
    /\ ret = NoResult
    /\ self = << >>
    /\ call = << >>
    /\ loc = << >>
    /\ list_forecast = << >>
    /\ started = 0
    /\ tr = << >>

\* lines 32-36: np.gradient needs at least two points
EngGradient ==
    /\ pc = "entry"
    /\ IF Len(args.time_array) < 2
       THEN /\ pc' = "raised"
            /\ ret' = Raise("ValueError", "wor_forecast")
            /\ st' = st
       ELSE /\ pc' = "init"
            /\ st' = [st EXCEPT !.delta_time = Gradient(RatSeq(args.time_array))]
            /\ ret' = ret
    /\ UNCHANGED <<args, i, nxt, self, call, loc, list_forecast, started, tr>>

\* lines 38-63
EngStep0 ==
    /\ pc = "init"
    /\ IF wor_to_bsw(args.wor_i).err # ""
       THEN /\ pc' = "raised"
            /\ ret' = Raise("AssertionError", "wor_forecast")
            /\ st' = st
       ELSE /\ pc' = "loop"
            /\ st' = Step0(args, st.delta_time)
            /\ ret' = ret
    /\ UNCHANGED <<args, i, nxt, self, call, loc, list_forecast, started, tr>>

\* lines 65-84: one pass of the for loop over range(1, T - 1)
EngLoopIter ==
    /\ pc = "loop"
    /\ nxt <= Len(args.time_array) - 2
    /\ i' = Some(nxt)
    /\ IF nxt + 1 > Len(args.fluid_rate)
       THEN /\ pc' = "raised"
            /\ ret' = Raise("IndexError", "wor_forecast")
            /\ UNCHANGED <<st, nxt>>
       ELSE /\ st' = Body(args, st, nxt)
            /\ ret' = ret
            /\ IF Breaks(args, st', nxt)
               THEN pc' = "build" /\ nxt' = nxt
               ELSE pc' = "loop" /\ nxt' = nxt + 1
    /\ UNCHANGED <<args, self, call, loc, list_forecast, started, tr>>

\* line 65: the range is exhausted
EngLoopExit ==
    /\ pc = "loop"
    /\ nxt > Len(args.time_array) - 2
    /\ pc' = "build"
    /\ UNCHANGED <<args, st, i, nxt, ret, self, call, loc, list_forecast, started, tr>>

\* lines 86-104
EngBuild ==
    /\ pc = "build"
    /\ ret' = Build(args, st, i)
    /\ pc' = IF ret'.err = "" THEN "done" ELSE "raised"
    /\ UNCHANGED <<args, st, i, nxt, self, call, loc, list_forecast, started, tr>>

EngineNext == EngGradient \/ EngStep0 \/ EngLoopIter \/ EngLoopExit \/ EngBuild

SpecEngine == EngineInit /\ [][EngineNext]_vars

----------------------------------------------------------------------------
(* Wor.forecast *)

\* converter_factor(freq_input, freq_output) >= 1, for the frequencies D and M
ConverterFactorOK(fi, fo) == ~(fi = "M" /\ fo = "D")

\* lines 162-189: the time axis and the display index, or the error raised
TimeGrid(me, c) ==
    IF me.fmt = "date"
    THEN IF c.time_list # None
         THEN [err |-> "", time_array |-> [j \in 1..Len(c.time_list[1]) |-> c.time_list[1][j] - me.ti],
               time_range |-> c.time_list[1]]
         ELSE IF c.start = None \/ c.end = None
         THEN [err |-> "AssertionError", time_array |-> << >>, time_range |-> << >>]
         ELSE LET n == IF c.end[1] >= c.start[1] THEN c.end[1] - c.start[1] + 1 ELSE 0
              IN [err |-> "", time_array |-> [j \in 1..n |-> c.start[1] + j - 1 - me.ti],
                  time_range |-> [j \in 1..n |-> c.start[1] + j - 1]]
    ELSE IF c.time_list # None
         THEN [err |-> "", time_array |-> c.time_list[1], time_range |-> c.time_list[1]]
         ELSE IF c.start = None \/ c.end = None
         THEN [err |-> "AssertionError", time_array |-> << >>, time_range |-> << >>]
         ELSE IF ~ConverterFactorOK(c.freq_input, c.freq_output)
         THEN [err |-> "FrequencyAssertion", time_array |-> << >>, time_range |-> << >>]
         ELSE LET n == IF c.end[1] > c.start[1] THEN c.end[1] - c.start[1] ELSE 0
              IN [err |-> "", time_array |-> [j \in 1..n |-> c.start[1] + j - 1],
                  time_range |-> [j \in 1..n |-> c.start[1] + j - 1]]

Max(a, b) == IF a >= b THEN a ELSE b

\* the broadcast shape that takes the rows of bsw and slope but not of fluid_rate
BroadcastRowsNoFluid(lb, ls, lf) ==
    LET n == Max(lb, ls)
    IN IF \A l \in {lb, ls} : l = 1 \/ l = n THEN n ELSE 0

\* line 208: np.broadcast of three 1-D shapes; 0 when they do not broadcast
BroadcastRows(lb, ls, lf) ==
    LET n == Max(lb, Max(ls, lf))
    IN IF \A l \in {lb, ls, lf} : l = 1 \/ l = n THEN n ELSE 0

\* fluid_rate.shape[0]; a 1-D fluid_rate is held as one single-value row per entry
FluidRows(fr) == Len(fr.v)

\* lines 215-219: _fluid, a sequence of rows, or the error np.broadcast raises
FluidTable(fr, n, T) ==
    IF fr.ndim = 1
    THEN IF ~(Len(fr.v) = n \/ Len(fr.v) = 1) THEN [err |-> "ValueError", v |-> << >>]
         ELSE [err |-> "",
               v |-> [r \in 1..n |-> [c \in 1..T |-> fr.v[IF Len(fr.v) = 1 THEN 1 ELSE r][1]]]]
    ELSE LET C == Len(fr.v[1])
         IN IF ~(C = T \/ C = 1 \/ T = 1) THEN [err |-> "ValueError", v |-> << >>]
            ELSE [err |-> "",
                  v |-> [r \in 1..Len(fr.v) |->
                           [c \in 1..Max(C, T) |-> fr.v[r][IF C = 1 THEN 1 ELSE c]]]]

\* np.diff(f, prepend=0)
DiffPrepend0(f) == [j \in 1..Len(f) |-> IF j = 1 THEN f[1] ELSE RSub(f[j], f[j - 1])]

\* lines 232-254: the columns Wor.forecast adds to the frame of iteration k
Derive(me, f, k, time_range) ==
    LET L == Len(f.oil_cum)
        useGor == Truthy(me.gor)
        useGlr == ~useGor /\ Truthy(me.glr)
        none == me.gor = None /\ me.glr = None
        gc == [j \in 1..L |->
                 IF useGor THEN RMul(f.oil_cum[j], me.gor[1])
                 ELSE IF useGlr THEN RMul(RAdd(f.oil_cum[j], f.water_cum[j]), me.glr[1])
                 ELSE Zero]
        gv == [j \in 1..L |->
                 IF useGor THEN DiffPrepend0(gc)[j]
                 ELSE IF useGlr THEN RDiv(DiffPrepend0(gc)[j], f.delta_time[j])
                 ELSE Zero]
        gr == [j \in 1..L |-> IF none THEN Zero ELSE RDiv(gv[j], f.delta_time[j])]
        has == useGor \/ useGlr \/ none
    IN [date       |-> SubSeq(time_range, 1, L),
        iteration  |-> k,
        oil_rate   |-> f.oil_rate,
        water_rate |-> f.water_rate,
        oil_cum    |-> f.oil_cum,
        water_cum  |-> f.water_cum,
        bsw        |-> f.bsw,
        wor        |-> f.wor,
        wor_1      |-> f.wor_1,
        delta_time |-> f.delta_time,
        fluid_rate |-> f.fluid_rate,
        fluid_cum  |-> f.fluid_cum,
        oil_volume   |-> Gradient(f.oil_cum),
        water_volume |-> Gradient(f.water_cum),
        has_gas    |-> has,
        gas_cum    |-> IF has THEN gc ELSE << >>,
        gas_volume |-> IF has THEN gv ELSE << >>,
        gas_rate   |-> IF has THEN gr ELSE << >>]

\* to_period(freq_output): the output period a day falls in
Period(d) == d \div PeriodDays

RECURSIVE SortedSeq(_)
SortedSeq(S) ==
    IF S = {} THEN << >>
    ELSE LET m == CHOOSE x \in S : \A y \in S : x <= y
         IN <<m>> \o SortedSeq(S \ {m})

RECURSIVE SumOf(_, _)
SumOf(f, J) ==
    IF J = {} THEN Zero
    ELSE LET j == CHOOSE x \in J : TRUE IN RAdd(f[j], SumOf(f, J \ {j}))

MeanOf(f, J) == RDiv(SumOf(f, J), Q(Cardinality(J)))
MaxOf(f, J) == f[CHOOSE x \in J : \A y \in J : RLe(f[y], f[x])]

\* lines 264-284: one iteration's rows grouped by output period and aggregated
Resample(f) ==
    LET P == SortedSeq({Period(f.date[j]) : j \in 1..Len(f.date)})
        J(n) == {j \in 1..Len(f.date) : Period(f.date[j]) = P[n]}
    IN [date       |-> P,
        iteration  |-> f.iteration,
        oil_rate   |-> [n \in 1..Len(P) |-> MeanOf(f.oil_rate, J(n))],
        water_rate |-> [n \in 1..Len(P) |-> MeanOf(f.water_rate, J(n))],
        oil_cum    |-> [n \in 1..Len(P) |-> MaxOf(f.oil_cum, J(n))],
        water_cum  |-> [n \in 1..Len(P) |-> MaxOf(f.water_cum, J(n))],
        bsw        |-> [n \in 1..Len(P) |-> MeanOf(f.bsw, J(n))],
        wor        |-> [n \in 1..Len(P) |-> MeanOf(f.wor, J(n))],
        wor_1      |-> [n \in 1..Len(P) |-> MeanOf(f.wor_1, J(n))],
        delta_time |-> [n \in 1..Len(P) |-> MeanOf(f.delta_time, J(n))],
        fluid_rate |-> [n \in 1..Len(P) |-> MeanOf(f.fluid_rate, J(n))],
        fluid_cum  |-> [n \in 1..Len(P) |-> MaxOf(f.fluid_cum, J(n))],
        oil_volume   |-> [n \in 1..Len(P) |-> SumOf(f.oil_volume, J(n))],
        water_volume |-> [n \in 1..Len(P) |-> SumOf(f.water_volume, J(n))],
        has_gas    |-> TRUE,
        gas_cum    |-> [n \in 1..Len(P) |-> MaxOf(f.gas_cum, J(n))],
        gas_volume |-> [n \in 1..Len(P) |-> SumOf(f.gas_volume, J(n))],
        gas_rate   |-> [n \in 1..Len(P) |-> MeanOf(f.gas_rate, J(n))]]

\* the inputs of the model ------------------------------------------------

\* a time axis with uneven steps: 0, 1, 3, 4, 6, ...
Axis(n) == [j \in 1..n |-> (3 * (j - 1)) \div 2]

\* one value per iteration: 0, 1/3, 1/2, 3/5, ... (all in [0, 1))
BswList(n) == [j \in 1..n |-> Norm(j - 1, j + 1)]
SlopeList(n) == [j \in 1..n |-> Q(j - 1)]
FluidList(n) == [j \in 1..n |-> <<Q(j)>>]
FluidGrid(r, c) == [x \in 1..r |-> [y \in 1..c |-> Q(1 + ((x + y) % 2))]]

\* every shape of bsw, slope and fluid_rate without a gas ratio, and every
\* setting of gor and glr for two of the shapes
Selves ==
    [bsw : {BswList(n) : n \in 1..MaxN} \cup {<<Norm(1, 2), Norm(3, 2)>>},
     slope : {<<Q(1)>>} \cup {SlopeList(n) : n \in 2..MaxN},
     fluid_rate : {[ndim |-> 1, v |-> FluidList(n)] : n \in 1..MaxN}
                  \cup {[ndim |-> 2, v |-> FluidGrid(r, c)] :
                          r \in 1..MaxN, c \in {1, MaxT - 1, MaxT}},
     fmt : {"number", "date"},
     ti : {0},
     gor : {None},
     glr : {None}]
    \cup
    [bsw : {BswList(2)},
     slope : {<<Q(1)>>},
     fluid_rate : {[ndim |-> 1, v |-> FluidList(1)], [ndim |-> 2, v |-> FluidGrid(2, MaxT)]},
     fmt : {"number", "date"},
     ti : {0},
     gor : {None, Some(Zero), Some(Q(2))},
     glr : {None, Some(Zero), Some(Q(3))}]

\* calls with an explicit time_list, with start and end, and with start missing
Calls ==
    [time_list : {Some(Axis(n)) : n \in 1..MaxT},
     start : {None}, end : {None},
     rate_limit : {None, Some(Q(1))}, cum_limit : {None}, wor_limit : {None},
     freq_input : {"D"}, freq_output : {"D", "M"}]
    \cup
    [time_list : {None},
     start : {Some(0)}, end : {Some(MaxT - 2), Some(MaxT - 1)},
     rate_limit : {None}, cum_limit : {None, Some(Q(3))}, wor_limit : {None, Some(Q(2))},
     freq_input : {"D", "M"}, freq_output : {"D"}]
    \cup
    [time_list : {None},
     start : {None}, end : {Some(MaxT)},
     rate_limit : {None}, cum_limit : {None}, wor_limit : {None},
     freq_input : {"D"}, freq_output : {"M"}]

NoArgs ==
    [time_array |-> << >>, fluid_rate |-> << >>, slope |-> Zero, wor_i |-> Zero,
     rate_limit |-> None, cum_limit |-> None, wor_limit |-> None]
NoLoc == [time_array |-> << >>, time_range |-> << >>, N |-> 0,
          bsw |-> << >>, slope |-> << >>, fluid |-> << >>, k |-> 0]

Init ==
    /\ pc = "fc_entry"
    /\ self \in Selves
    /\ call \in Calls
    /\ loc = NoLoc
    /\ list_forecast = << >>
    /\ started = 0
    /\ ret = NoResult
    /\ args = NoArgs
    /\ st = BlankSt
    /\ i = None
    /\ nxt = 1
    /\ tr = << >>

\* lines 162-189
FcTimeGrid ==
    /\ pc = "fc_entry"
    /\ LET g == TimeGrid(self, call)
       IN IF g.err # ""
          THEN /\ pc' = "raised"
               /\ ret' = Raise("AssertionError",
                             IF g.err = "FrequencyAssertion" THEN "frequency" ELSE "time_range")
               /\ loc' = loc
          ELSE /\ pc' = "fc_broadcast"
               /\ loc' = [loc EXCEPT !.time_array = g.time_array, !.time_range = g.time_range]
               /\ ret' = ret
    /\ UNCHANGED <<args, st, i, nxt, self, call, list_forecast, started, tr>>

\* lines 196-219
FcBroadcast ==
    /\ pc = "fc_broadcast"
    /\ LET n == BroadcastRows(Len(self.bsw), Len(self.slope), FluidRows(self.fluid_rate))
           fl == FluidTable(self.fluid_rate, n, Len(loc.time_array))
       IN IF n = 0 \/ fl.err # ""
          THEN /\ pc' = "raised"
               /\ ret' = Raise("ValueError", "shape")
               /\ loc' = loc
          ELSE /\ pc' = "fc_loop"
               /\ loc' = [time_array |-> loc.time_array,
                          time_range |-> loc.time_range,
                          N     |-> n,
                          bsw   |-> [j \in 1..n |-> self.bsw[IF Len(self.bsw) = 1 THEN 1 ELSE j]],
                          slope |-> [j \in 1..n |-> self.slope[IF Len(self.slope) = 1 THEN 1 ELSE j]],
                          fluid |-> fl.v,
                          k     |-> 0]
               /\ ret' = ret
    /\ UNCHANGED <<args, st, i, nxt, self, call, list_forecast, started, tr>>

\* lines 225-230: the head of one pass of the loop over the iterations, up
\* to the call of wor_forecast
FcCall ==
    /\ pc = "fc_loop"
    /\ loc.k < loc.N
    /\ LET k == loc.k
           w == bsw_to_wor(loc.bsw[k + 1])
       IN IF w.err # ""
          THEN /\ pc' = "raised"
               /\ ret' = Raise("AssertionError", "bsw_domain")
               /\ UNCHANGED <<args, st, i, nxt, started>>
          ELSE IF k + 1 > Len(loc.fluid)
          THEN /\ pc' = "raised"
               /\ ret' = Raise("IndexError", "shape")
               /\ UNCHANGED <<args, st, i, nxt, started>>
          ELSE /\ args' = [time_array |-> loc.time_array,
                           fluid_rate |-> loc.fluid[k + 1],
                           slope      |-> loc.slope[k + 1],
                           wor_i      |-> w.v,
                           rate_limit |-> call.rate_limit,
                           cum_limit  |-> call.cum_limit,
                           wor_limit  |-> call.wor_limit]
               /\ st' = BlankSt
               /\ i' = None
               /\ nxt' = 1
               /\ started' = started + 1
               /\ pc' = "entry"
               /\ ret' = ret
    /\ UNCHANGED <<self, call, loc, list_forecast, tr>>

\* lines 232-257: the rest of the pass, once wor_forecast has returned
FcDerive ==
    /\ pc = "done"
    /\ list_forecast' = Append(list_forecast, Derive(self, ret.frame, loc.k, loc.time_range))
    /\ loc' = [loc EXCEPT !.k = loc.k + 1]
    /\ pc' = "fc_loop"
    /\ UNCHANGED <<args, st, i, nxt, ret, self, call, started, tr>>

\* lines 260-286: concatenate, resample when the index is calendar based
FcConcat ==
    /\ pc = "fc_loop"
    /\ loc.k >= loc.N
    /\ IF self.fmt = "date" /\ call.freq_output # "D"
       THEN IF \E n \in 1..Len(list_forecast) : ~list_forecast[n].has_gas
            THEN pc' = "raised" /\ ret' = Raise("KeyError", "aggregation")
            ELSE /\ pc' = "returned"
                 /\ ret' = [err |-> "", what |-> "", frame |-> EmptyFrame,
                            frames |-> [n \in 1..Len(list_forecast) |-> Resample(list_forecast[n])]]
       ELSE /\ pc' = "returned"
            /\ ret' = [err |-> "", what |-> "", frame |-> EmptyFrame, frames |-> list_forecast]
    /\ UNCHANGED <<args, st, i, nxt, self, call, loc, list_forecast, started, tr>>

Next ==
    \/ FcTimeGrid \/ FcBroadcast \/ FcCall \/ FcDerive \/ FcConcat
    \/ EngGradient \/ EngStep0 \/ EngLoopIter \/ EngLoopExit \/ EngBuild

Spec == Init /\ [][Next]_vars

----------------------------------------------------------------------------
(* The transforms applied one after the other *)

\* fractions n/d around and inside the domains of the two transforms
Fractions == {Norm(n, d) : n \in -1..MaxDen, d \in 1..MaxDen}

TransformInit ==
    /\ pc = "tr_entry"
    /\ tr \in [dir : {"bsw", "wor"}, x : Fractions \cup {Inf}, mid : {NaN}, back : {NaN}]
    /\ args = NoArgs
    /\ st = BlankSt
    /\ i = None
    /\ nxt = 1
    /\ ret = NoResult
    /\ self = << >>
    /\ call = << >>
    /\ loc = NoLoc
    /\ list_forecast = << >>
    /\ started = 0

\* the first transform: bsw_to_wor(x) or wor_to_bsw(x)
TrFirst ==
    /\ pc = "tr_entry"
    /\ LET r == IF tr.dir = "bsw" THEN bsw_to_wor(tr.x) ELSE wor_to_bsw(tr.x)
       IN IF r.err # ""
          THEN pc' = "raised" /\ tr' = tr /\ ret' = Raise(r.err, "first")
          ELSE pc' = "tr_mid" /\ tr' = [tr EXCEPT !.mid = r.v] /\ ret' = ret
    /\ UNCHANGED <<args, st, i, nxt, self, call, loc, list_forecast, started>>

\* the other transform applied to the result of the first
TrSecond ==
    /\ pc = "tr_mid"
    /\ LET r == IF tr.dir = "bsw" THEN wor_to_bsw(tr.mid) ELSE bsw_to_wor(tr.mid)
       IN IF r.err # ""
          THEN pc' = "raised" /\ tr' = tr /\ ret' = Raise(r.err, "second")
          ELSE pc' = "tr_done" /\ tr' = [tr EXCEPT !.back = r.v] /\ ret' = ret
    /\ UNCHANGED <<args, st, i, nxt, self, call, loc, list_forecast, started>>

TransformNext == TrFirst \/ TrSecond

SpecTransform == TransformInit /\ [][TransformNext]_vars

----------------------------------------------------------------------------
(* Properties of wor_forecast, checked under SpecEngine *)

NonDecreasing(f) == \A j \in 1..(Len(f) - 1) : RLe(f[j], f[j + 1])
NoLimits == args.rate_limit = None /\ args.cum_limit = None /\ args.wor_limit = None
Returned == pc = "done"
Rows == Len(ret.frame.oil_rate)

\* row j of the returned run satisfies one of the limits that were supplied
MeetsALimit(j) ==
    \/ args.rate_limit # None /\ RLe(ret.frame.oil_rate[j], args.rate_limit[1])
    \/ args.cum_limit # None /\ RGe(ret.frame.oil_cum[j], args.cum_limit[1])
    \/ args.wor_limit # None /\ RGe(ret.frame.wor[j], args.wor_limit[1])

\* C1: with rate_limit = R supplied and some returned oil_rate <= R, the last
\* returned row is the first row whose oil_rate is <= R and no earlier row
\* satisfies any supplied limit.
C1_TruncationAtFirstHit ==
    (Returned /\ args.rate_limit # None
       /\ \E j \in 1..Rows : RLe(ret.frame.oil_rate[j], args.rate_limit[1]))
    => /\ RLe(ret.frame.oil_rate[Rows], args.rate_limit[1])
       /\ \A j \in 1..(Rows - 1) : ~MeetsALimit(j)

\* C2: with no stopping limit supplied the returned run has all T rows.
C2_FullRunWithoutLimits ==
    (Returned /\ NoLimits) => Rows = Len(args.time_array)

C3Pre ==
    /\ \A j \in 1..(Len(args.time_array) - 1) : args.time_array[j] <= args.time_array[j + 1]
    /\ \A j \in 1..Len(args.fluid_rate) : RGe(args.fluid_rate[j], Zero)
    /\ RGe(args.wor_i, Zero)

C9_AlwaysReturnsARun ==
    (Len(args.time_array) >= 1 /\ Len(args.fluid_rate) = Len(args.time_array)
       /\ RGe(args.wor_i, Zero))
    => /\ pc # "raised"
       /\ Returned => /\ Rows >= 1
                      /\ ret.frame.wor[1] = args.wor_i
                      /\ ret.frame.bsw[1] = wor_to_bsw(args.wor_i).v
                      /\ ret.frame.oil_rate[1] =
                           RMul(args.fluid_rate[1], RSub(One, wor_to_bsw(args.wor_i).v))

----------------------------------------------------------------------------
(* Properties of Wor.forecast, checked under Spec *)

\* the N of the claim: the common row count of bsw, slope and fluid_rate
ClaimN == Max(Len(self.bsw), Max(Len(self.slope), FluidRows(self.fluid_rate)))

\* fluid_rate is a scalar, a length-N vector or an (N, T) table and bsw and
\* slope are each a scalar or a length-N vector
ClaimShapes ==
    /\ Len(self.bsw) \in {1, ClaimN}
    /\ Len(self.slope) \in {1, ClaimN}
    /\ IF self.fluid_rate.ndim = 1 THEN FluidRows(self.fluid_rate) \in {1, ClaimN}
       ELSE /\ FluidRows(self.fluid_rate) = ClaimN
            /\ Len(self.fluid_rate.v[1]) = Len(loc.time_array)

\* C4: for those shapes the returned ensemble holds exactly the iteration ids
\* 0..N-1, one run each, and no run is longer than the time axis.
C4_BroadcastShape ==
    (pc = "returned" /\ ClaimShapes)
    => /\ {ret.frames[n].iteration : n \in 1..Len(ret.frames)} = 0..(ClaimN - 1)
       /\ Len(ret.frames) = ClaimN
       /\ \A n \in 1..Len(ret.frames) : Len(ret.frames[n].date) <= Len(loc.time_array)

\* an ensemble of several runs from a fluid_rate table and a scalar bsw
C4_Witness ==
    /\ pc = "returned" /\ ClaimShapes /\ ClaimN >= 2
    /\ self.fluid_rate.ndim = 2 /\ Len(self.bsw) = 1
    /\ Len(ret.frames) = ClaimN
    /\ \A n \in 1..Len(ret.frames) : Len(ret.frames[n].date) >= 2

\* C5: with a GOR or a GLR set, gas_cum is the linked cumulative times the
\* ratio, gas_volume is the increment of gas_cum over the previous row (the
\* first against zero) and gas_rate is gas_volume / delta_time, in every row
\* of every run.
C5_GasIncrement ==
    \A n \in 1..Len(list_forecast) :
      LET f == list_forecast[n]
      IN (Truthy(self.gor) \/ Truthy(self.glr))
         => /\ f.has_gas
            /\ \A j \in 1..Len(f.date) :
                 /\ f.gas_cum[j] =
                      IF Truthy(self.gor) THEN RMul(f.oil_cum[j], self.gor[1])
                      ELSE RMul(RAdd(f.oil_cum[j], f.water_cum[j]), self.glr[1])
                 /\ f.gas_volume[j] =
                      IF j = 1 THEN f.gas_cum[1] ELSE RSub(f.gas_cum[j], f.gas_cum[j - 1])
                 /\ f.gas_rate[j] = RDiv(f.gas_volume[j], f.delta_time[j])

\* C6: oil_volume and water_volume are the row-to-row increments of oil_cum
\* and water_cum, the first row's being the first cumulative value, so the
\* oil volumes of a run add up to its last oil_cum.
C6_VolumeIncrement ==
    \A n \in 1..Len(list_forecast) :
      LET f == list_forecast[n]
          L == Len(f.date)
      IN /\ \A j \in 1..L :
              /\ f.oil_volume[j] =
                   IF j = 1 THEN f.oil_cum[1] ELSE RSub(f.oil_cum[j], f.oil_cum[j - 1])
              /\ f.water_volume[j] =
                   IF j = 1 THEN f.water_cum[1] ELSE RSub(f.water_cum[j], f.water_cum[j - 1])
         /\ SumOf(f.oil_volume, 1..L) = f.oil_cum[L]

\* C7: a shape, time-range or frequency error is raised only while no
\* wor_forecast call has begun.
C7_FailFast ==
    (pc = "raised" /\ ret.what \in {"shape", "time_range", "frequency"}) => started = 0

\* C10: whatever gor and glr are, every run that reaches the concatenation
\* carries gas_cum, gas_volume and gas_rate.
C10_GasColumnsPresent ==
    \A n \in 1..Len(list_forecast) : list_forecast[n].has_gas

====
